---- MODULE Spec2Model ----
(***************************************************************************)
(* Model of the textbook ingestion / retrieval service (app/services,      *)
(* app/api, app/repositories).  The persisted state is the FAISS index     *)
(* file and the four MongoDB collections books, chapters, lessons, chunks. *)
(* Every action is one request handler, taken as a whole.                  *)
(***************************************************************************)
EXTENDS FiniteSets, Integers, Sequences, TLC

(***************************************************************************)
(* Bounds of the model.                                                    *)
(***************************************************************************)
MaxIndex == 3     \* the index file never holds more vectors than this
MaxRows == 1      \* chapter and lesson rows creatable through the CRUD API
MaxRetrieved == 4           \* passages handed to the scope filter on its own
MaxPages == 3               \* pages of a document handed to the extractor on its own
MaxTocPage == 5             \* largest page number a table of contents names
MaxFound == 3               \* pairs of a search result handed to the lookup on its own
MaxTexts == 5               \* texts handed to the embedder on its own
MaxBatch == 3               \* batch sizes the embedder is tried with

(***************************************************************************)
(* Program constants.                                                      *)
(***************************************************************************)
ChunkSize == 800            \* indexer.py:255  size=800 (words)
ChunkOverlap == 100         \* indexer.py:255  overlap=100 (words)
RELEVANCE_THRESHOLD == 35   \* rag_engine.py:395  0.35, in hundredths
OVERSAMPLE == 3             \* rag_engine.py:314  k * 3
TOP_SOURCES == 3            \* rag_engine.py:416  filtered_chunks[:3]
MAX_SCAN_PAGES == 30        \* parser.py:61  max_scan_pages=30
CACHE_CHECK_PAGES == 10     \* indexer.py:147,159  pages[:10]

None == <<>>                \* Python None / absent key / empty string

(***************************************************************************)
(* Input domains.                                                          *)
(***************************************************************************)
RawNames == { <<"T">>, <<" ", "t">> }      \* book_name as sent by the client
Grades == {1, 2}
Dims == {2, 3}              \* dimensionality of the configured EMBED_MODEL

\* A page of the source PDF: how its extraction goes, the text it holds and
\* the chapter and lesson headings the detection finds in that text.
\*   "text":   read from the text layer
\*   "ocr":    OCR succeeds
\*   "direct": OCR raises OSError, the direct text extraction succeeds
\*   "failed": OCR raises OSError and the direct text extraction raises
\*   "error":  OCR raises another exception
PageOutcomes == {"text", "ocr", "direct", "failed", "error"}

RawPage(outcome, t, ch, le) ==
    [outcome |-> outcome, text |-> t, chapter |-> ch, lesson |-> le]

Page(t, ch, le) == RawPage("text", t, ch, le)

\* What the extractor returns for the fetched PDF: one record per page.
DocTwo == << Page(<<"p">>, None, None), Page(<<"q">>, None, None) >>
DocOne == << Page(<<"r">>, None, None) >>
DocHead == << Page(<<"s">>, <<"C">>, <<"B">>) >>
DocBlank == << RawPage("failed", <<"w">>, None, None) >>
\* a scanned book whose first MAX_SCAN_PAGES pages carry no text and whose
\* first chapter heading stands on the page after them
DocLate ==
    [i \in 1..(MAX_SCAN_PAGES + 1) |->
        IF i <= MAX_SCAN_PAGES THEN RawPage("ocr", <<>>, None, None)
        ELSE RawPage("ocr", <<"s">>, <<"C">>, <<"B">>)]
\* two chapters, each with a lesson of the same title
DocTwin == << Page(<<"s">>, <<"C">>, <<"B">>), Page(<<"r">>, <<"D">>, <<"B">>) >>
Docs == {DocTwo, DocOne, DocHead, DocBlank}

Faults == {"none", "fetch", "embed"}

(***************************************************************************)
(* Generic helpers.                                                        *)
(***************************************************************************)
Range(s) == { s[i] : i \in DOMAIN s }

Min2(a, b) == IF a <= b THEN a ELSE b

RECURSIVE Flatten(_)
Flatten(ss) == IF ss = <<>> THEN <<>> ELSE Head(ss) \o Flatten(Tail(ss))

Take(s, n) == SubSeq(s, 1, Min2(n, Len(s)))

\* Python str.lower() on the characters of the model alphabet.
LowerChar(c) ==
    CASE c = "T" -> "t" [] c = "C" -> "c" [] c = "B" -> "b" [] c = "X" -> "x"
      [] OTHER -> c

Lower(s) == [i \in DOMAIN s |-> LowerChar(s[i])]

RECURSIVE LStrip(_)
LStrip(s) == IF s # <<>> /\ Head(s) = " " THEN LStrip(Tail(s)) ELSE s

RECURSIVE RStrip(_)
RStrip(s) == IF s # <<>> /\ s[Len(s)] = " " THEN RStrip(SubSeq(s, 1, Len(s) - 1)) ELSE s

\* Python str.strip()
Strip(s) == RStrip(LStrip(s))

Digit(d) == CASE d = 0 -> "0" [] d = 1 -> "1" [] d = 2 -> "2" [] d = 3 -> "3"
              [] d = 4 -> "4" [] d = 5 -> "5" [] d = 6 -> "6" [] d = 7 -> "7"
              [] d = 8 -> "8" [] OTHER -> "9"

\* Python str(n) for a natural number.
RECURSIVE Str(_)
Str(n) == IF n < 10 THEN <<Digit(n)>> ELSE Str(n \div 10) \o <<Digit(n % 10)>>

\* hashlib.md5(...).hexdigest(): a collision-free digest of the byte string.
md5(s) == <<"md5">> \o s

(***************************************************************************)
(* Content-addressed identifiers (indexer.py).                             *)
(***************************************************************************)
_compute_book_id(book_name, grade) ==
    md5(Lower(Strip(book_name)) \o <<":", ":">> \o Str(grade))

_compute_chapter_id(book_id, chapter_title) ==
    md5(book_id \o <<":", ":">> \o Lower(Strip(chapter_title)))

_compute_lesson_id(chapter_id, lesson_title) ==
    md5(chapter_id \o <<":", ":">> \o Lower(Strip(lesson_title)))

BookIds == { _compute_book_id(n, g) : n \in RawNames, g \in Grades }

(***************************************************************************)
(* State.                                                                  *)
(***************************************************************************)
VARIABLES
    indexFile,   \* the file at INDEX_PATH: [exists, d, vecs]
    books,       \* db.books, in insertion order
    chapters,    \* db.chapters
    lessons,     \* db.lessons
    chunks,      \* db.chunks (the passage store)
    clean,       \* history: no request has aborted so far
    last,        \* history: what the latest request did and returned
    runs         \* ingestion runs in flight, step by step: position and locals

vars == <<indexFile, books, chapters, lessons, chunks, clean, last, runs>>

persisted == <<indexFile, books, chapters, lessons, chunks>>

NoFile == [exists |-> FALSE, d |-> 0, vecs |-> <<>>]

\* What a query returned (sections, note, sources, indices, distances; raised
\* names the exception when it raised instead) and what it did on the way:
\* calls to the embedding service, index searches, indices looked up in the
\* passage store, text-generation calls inside rag_query (llm_calls) and by
\* the endpoint afterwards (content_calls), and the branch the gate took.
NoOut == [sections |-> <<>>, note |-> "", sources |-> <<>>, indices |-> <<>>,
          distances |-> <<>>, raised |-> "", llm_calls |-> 0, content_calls |-> 0,
          embed_calls |-> 0, searches |-> 0, looked_up |-> <<>>, gate |-> "",
          best |-> 0, retrieved |-> <<>>, filtered |-> <<>>, llm |-> ""]

Trace(op, status, cause, book_id) ==
    [op |-> op, status |-> status, cause |-> cause, book_id |-> book_id,
     appended |-> 0, removed |-> 0, scope |-> <<>>, out |-> NoOut,
     doc |-> <<>>, pages |-> <<>>, degraded |-> 0, total_pages |-> 0,
     structured |-> <<>>, page_map |-> <<>>, found |-> <<>>,
     request |-> <<>>, loaded |-> <<>>]

(***************************************************************************)
(* Repositories (app/repositories).                                        *)
(***************************************************************************)
\* delete_many with an empty filter: every chunk goes
delete_chunks_all(rows, book_id) == <<>>

\* collection.delete_many({"book_id": book_id})
delete_chunks_by_book(rows, book_id) == SelectSeq(rows, LAMBDA r : r.book_id # book_id)

delete_chapters_by_book(rows, book_id) == SelectSeq(rows, LAMBDA r : r.book_id # book_id)

delete_lessons_by_book(rows, book_id) == SelectSeq(rows, LAMBDA r : r.book_id # book_id)

\* collection.delete_one({"book_id": book_id}): the first matching row only
RECURSIVE delete_book(_, _)
delete_book(rows, book_id) ==
    IF rows = <<>> THEN <<>>
    ELSE IF Head(rows).book_id = book_id THEN Tail(rows)
    ELSE <<Head(rows)>> \o delete_book(Tail(rows), book_id)

\* find_one({"book_id": ...}): the matching rows, first match first
get_book_by_id(rows, book_id) == SelectSeq(rows, LAMBDA r : r.book_id = book_id)

get_book_by_name(rows, book_name) == SelectSeq(rows, LAMBDA r : r.book_name = book_name)

get_chapter_by_id(rows, chapter_id) == SelectSeq(rows, LAMBDA r : r.chapter_id = chapter_id)

get_lesson_by_id(rows, lesson_id) == SelectSeq(rows, LAMBDA r : r.lesson_id = lesson_id)

\* find_one + update_one($set) on the first match, or insert_one
RECURSIVE update_one(_, _, _)
update_one(rows, book_id, doc) ==
    IF rows = <<>> THEN <<>>
    ELSE IF Head(rows).book_id = book_id THEN <<doc>> \o Tail(rows)
    ELSE <<Head(rows)>> \o update_one(Tail(rows), book_id, doc)

\* upsert_book without the find_one: every call inserts
upsert_book_insert(rows, book_id, book_name, grade_id, structure) ==
    Append(rows, [book_id |-> book_id, book_name |-> book_name,
                  grade_id |-> grade_id, structure |-> structure])

upsert_book(rows, book_id, book_name, grade_id, structure) ==
    LET doc == [book_id |-> book_id, book_name |-> book_name,
                grade_id |-> grade_id, structure |-> structure]
    IN  IF get_book_by_id(rows, book_id) # <<>>
        THEN update_one(rows, book_id, doc)
        ELSE Append(rows, doc)

upsert_chapter(rows, chapter_id, book_id, title, order) ==
    LET doc == [chapter_id |-> chapter_id, book_id |-> book_id,
                title |-> title, order |-> order]
    IN  IF get_chapter_by_id(rows, chapter_id) # <<>>
        THEN [i \in DOMAIN rows |->
                IF i = CHOOSE j \in DOMAIN rows :
                          /\ rows[j].chapter_id = chapter_id
                          /\ \A h \in 1..(j - 1) : rows[h].chapter_id # chapter_id
                THEN doc ELSE rows[i]]
        ELSE Append(rows, doc)

upsert_lesson(rows, lesson_id, chapter_id, book_id, title, page, order) ==
    LET doc == [lesson_id |-> lesson_id, chapter_id |-> chapter_id,
                book_id |-> book_id, title |-> title, page |-> page,
                order |-> order]
    IN  IF get_lesson_by_id(rows, lesson_id) # <<>>
        THEN [i \in DOMAIN rows |->
                IF i = CHOOSE j \in DOMAIN rows :
                          /\ rows[j].lesson_id = lesson_id
                          /\ \A h \in 1..(j - 1) : rows[h].lesson_id # lesson_id
                THEN doc ELSE rows[i]]
        ELSE Append(rows, doc)

\* insert_chunks: stamps book_id on every chunk, then insert_many
insert_chunks(rows, new, book_id) ==
    rows \o [i \in DOMAIN new |-> [new[i] EXCEPT !.book_id = book_id]]

EmbeddingIndices(rows) == { rows[i].embedding_index : i \in DOMAIN rows }

SetMax(S) == CHOOSE m \in S : \A x \in S : x <= m

\* max_index left at its initial 0
next_embedding_index_zero(rows) == 0

\* find({}, {"embedding_index": 1}).sort("embedding_index", -1).limit(1),
\* then [0].get("embedding_index", 0) + 1; IndexError on an empty store is
\* swallowed and leaves 0.
next_embedding_index(rows) ==
    IF rows = <<>> THEN 0 ELSE SetMax(EmbeddingIndices(rows)) + 1

(***************************************************************************)
(* Extractor (services/parser.parse_pdf_bytes).                            *)
(***************************************************************************)
Readable(outcome) == outcome \in {"text", "ocr", "direct"}

\* one page record per page of the document, in order; a heading found on
\* a page replaces the one carried forward; a page that cannot be read
\* becomes a record with empty text under the headings carried so far.
\* a page that keeps only what was detected on it
carry_none(detected, current) == detected

\* if detected_chapter: current_chapter = detected_chapter (same for lessons)
carry(detected, current) == IF detected # None THEN detected ELSE current

RECURSIVE parse_pages_from(_, _, _, _, _)
parse_pages_from(doc, i, current_chapter, current_lesson, pages) ==
    IF i > Len(doc) THEN pages
    ELSE LET raw == doc[i]
             ch == carry(IF Readable(raw.outcome) THEN raw.chapter ELSE None,
                         current_chapter)
             le == carry(IF Readable(raw.outcome) THEN raw.lesson ELSE None,
                         current_lesson)
             rec == [page_num |-> i,
                     text |-> IF Readable(raw.outcome) THEN raw.text ELSE <<>>,
                     chapter |-> ch, lesson |-> le]
         IN  parse_pages_from(doc, i + 1, ch, le, Append(pages, rec))

\* a variant that keeps only the pages it could read
parse_pdf_bytes_readable(doc) ==
    SelectSeq(parse_pages_from(doc, 1, None, None, <<>>), LAMBDA p : p.text # <<>>)

parse_pdf_bytes(doc) == parse_pages_from(doc, 1, None, None, <<>>)

\* the pages whose text is the empty placeholder
Degraded(doc) == { i \in DOMAIN doc : ~Readable(doc[i].outcome) }

(***************************************************************************)
(* Chunker (services/chunker.py).                                          *)
(***************************************************************************)
\* RecursiveCharacterTextSplitter.split_text with a word-count length
\* function: nothing for an empty text, otherwise windows of at most `size`
\* words, consecutive windows sharing `overlap` words.
RECURSIVE split_text(_, _, _)
split_text(text, size, overlap) ==
    IF Len(text) = 0 THEN <<>>
    ELSE IF Len(text) <= size THEN <<text>>
    ELSE <<SubSeq(text, 1, size)>>
            \o split_text(SubSeq(text, size - overlap + 1, Len(text)), size, overlap)

\* chunk_pages: page order, then split order; chunk_id counts across pages.
\* A chunk carries only chunk_id, book, grade, page, text (book and grade,
\* the same on every chunk of a run, are left out of the rows).
RECURSIVE chunk_pages_from(_, _, _, _, _, _)
chunk_pages_from(pages, p, done, book_name, size, overlap) ==
    IF p > Len(pages) THEN done
    ELSE LET pieces == split_text(pages[p].text, size, overlap)
             made == [j \in DOMAIN pieces |->
                        [chunk_id |-> Len(done) + j,
                         page |-> pages[p].page_num, text |-> pieces[j],
                         chapter_id |-> None, lesson_id |-> None,
                         book_id |-> None, embedding_index |-> 0 - 1]]
         IN  chunk_pages_from(pages, p + 1, done \o made, book_name, size, overlap)

chunk_pages(pages, book_name, size, overlap) ==
    chunk_pages_from(pages, 1, <<>>, book_name, size, overlap)

(***************************************************************************)
(* Embedder (services/embedder.py).                                        *)
(***************************************************************************)
EMBED_BATCH == 100          \* embedder.py:13  batch_size=100

\* client.embeddings.create for one batch: one vector per input, in order.
embeddings_create(batch, dim) == [i \in DOMAIN batch |-> [dim |-> dim, of |-> batch[i]]]

RECURSIVE embed_texts_from(_, _, _, _)
embed_texts_from(texts, i, batch_size, dim) ==
    IF i > Len(texts) THEN <<>>
    ELSE embeddings_create(SubSeq(texts, i, Min2(i + batch_size - 1, Len(texts))), dim)
            \o embed_texts_from(texts, i + batch_size, batch_size, dim)

\* only the full batches are sent
embed_texts_full_batches(texts, batch_size, dim) ==
    embed_texts_from(SubSeq(texts, 1, (Len(texts) \div batch_size) * batch_size),
                     1, batch_size, dim)

embed_texts(texts, batch_size, dim) == embed_texts_from(texts, 1, batch_size, dim)

(***************************************************************************)
(* Structure (parser.extract_toc_candidates fallback, indexer.py:227-233). *)
(***************************************************************************)
\* Fallback of extract_toc_candidates: chapters in order of first
\* appearance among the pages that carry a detected chapter.
RECURSIVE toc_titles(_, _, _)
toc_titles(pages, p, acc) ==
    IF p > Len(pages) THEN acc
    ELSE LET ch == pages[p].chapter
         IN  IF ch # None /\ ch \notin Range(acc)
             THEN toc_titles(pages, p + 1, Append(acc, ch))
             ELSE toc_titles(pages, p + 1, acc)

RECURSIVE toc_lessons(_, _, _, _)
toc_lessons(pages, p, ch, acc) ==
    IF p > Len(pages) THEN acc
    ELSE LET le == pages[p].lesson
         IN  IF pages[p].chapter = ch /\ le # None
                   /\ \A i \in DOMAIN acc : acc[i].title # le
             THEN toc_lessons(pages, p + 1, ch, Append(acc, [title |-> le, page |-> p]))
             ELSE toc_lessons(pages, p + 1, ch, acc)

extract_toc_candidates(pages) ==
    LET scanned == Take(pages, MAX_SCAN_PAGES)
        titles == toc_titles(scanned, 1, <<>>)
    IN  [i \in DOMAIN titles |->
            [title |-> titles[i], lessons |-> toc_lessons(scanned, 1, titles[i], <<>>)]]

\* structured[ch] = {"lessons": [titles], "lesson_pages": {title: page}}
structured_of(toc) ==
    [i \in DOMAIN toc |->
        [title |-> toc[i].title,
         lessons |-> [j \in DOMAIN toc[i].lessons |-> toc[i].lessons[j].title],
         lesson_pages |-> toc[i].lessons]]

(***************************************************************************)
(* Page ranges from the table of contents (indexer._build_page_assignments)*)
(* structured is the dict in insertion order: one entry per chapter title, *)
(* lesson_pages the lessons that have a page, in insertion order.          *)
(***************************************************************************)
NoEnd == 0 - 1              \* end_page = None: the range has no known end

\* list.sort(key=lambda x: x[0]): stable, ascending by page
sort_by_page(s) ==
    LET pos(i) == 1 + Cardinality({ j \in DOMAIN s :
                        \/ s[j].page < s[i].page
                        \/ s[j].page = s[i].page /\ j < i })
    IN  [k \in DOMAIN s |-> s[CHOOSE i \in DOMAIN s : pos(i) = k]]

\* pairs of one chapter: (page, title) sorted by page
chapter_lessons_pages(structured, c) == sort_by_page(structured[c].lesson_pages)

\* (first_page, chapter) of the chapters that have a lesson page, sorted
chapter_order(structured) ==
    LET with == SelectSeq([c \in DOMAIN structured |-> c],
                          LAMBDA c : structured[c].lesson_pages # <<>>)
    IN  sort_by_page([k \in DOMAIN with |->
            [page |-> chapter_lessons_pages(structured, with[k])[1].page,
             ch |-> with[k]]])

\* (start, end, chapter): a chapter ends on the page before the next one starts
chapter_ranges(structured) ==
    LET order == chapter_order(structured)
    IN  [idx \in DOMAIN order |->
            [start |-> order[idx].page,
             end |-> IF idx + 1 <= Len(order) THEN order[idx + 1].page - 1 ELSE NoEnd,
             ch |-> order[idx].ch]]

\* end of the last lesson of a chapter, taken as open whatever the chapter
lesson_end_open(structured, c, i) ==
    LET pairs == chapter_lessons_pages(structured, c)
    IN  IF i + 1 <= Len(pairs) THEN pairs[i + 1].page - 1 ELSE NoEnd

\* a lesson ends on the page before the next lesson of its chapter; the
\* last lesson of a chapter ends where the chapter ends
lesson_end(structured, c, i) ==
    LET pairs == chapter_lessons_pages(structured, c)
        ranges == chapter_ranges(structured)
        ch_range == CHOOSE r \in DOMAIN ranges : ranges[r].ch = c
    IN  IF i + 1 <= Len(pairs) THEN pairs[i + 1].page - 1 ELSE ranges[ch_range].end

\* range(start, last + 1) with last = start when the end is not known
range_pages(start, end) == IF end = NoEnd THEN {start} ELSE start..end

\* the (chapter, lesson) positions of lesson_ranges, in the order it is built
lesson_range_ids(structured) ==
    UNION { {c} \X DOMAIN structured[c].lesson_pages : c \in DOMAIN structured }

_build_page_assignments(structured) ==
    LET ranges == chapter_ranges(structured)
        ids == lesson_range_ids(structured)
        lesson_at(id) == chapter_lessons_pages(structured, id[1])[id[2]]
        lesson_covers(id, p) ==
            p \in range_pages(lesson_at(id).page, lesson_end(structured, id[1], id[2]))
        chapter_covers(r, p) == p \in range_pages(ranges[r].start, ranges[r].end)
        covered == UNION { range_pages(lesson_at(id).page,
                                       lesson_end(structured, id[1], id[2])) : id \in ids }
                   \cup UNION { range_pages(ranges[r].start, ranges[r].end) :
                                 r \in DOMAIN ranges }
        \* page_map[p] = ... in lesson_ranges order: the last writer stays
        last_lesson(p) ==
            CHOOSE id \in ids :
                /\ lesson_covers(id, p)
                /\ \A other \in ids :
                      lesson_covers(other, p) =>
                          \/ other[1] < id[1]
                          \/ other[1] = id[1] /\ other[2] <= id[2]
        \* if p not in page_map: the first chapter range stays
        first_chapter(p) ==
            CHOOSE r \in DOMAIN ranges :
                /\ chapter_covers(r, p)
                /\ \A q \in DOMAIN ranges : chapter_covers(q, p) => r <= q
    IN  [p \in covered |->
            IF \E id \in ids : lesson_covers(id, p)
            THEN [chapter |-> structured[last_lesson(p)[1]].title,
                  lesson |-> lesson_at(last_lesson(p)).title]
            ELSE [chapter |-> structured[ranges[first_chapter(p)].ch].title,
                  lesson |-> None]]

(***************************************************************************)
(* Vector index file (indexer._ensure_index, faiss add / write_index).     *)
(***************************************************************************)
\* _ensure_index without the os.path.exists test: always a new index
_ensure_index_new(file, dim) == [exists |-> TRUE, d |-> dim, vecs |-> <<>>]

\* read the file when it exists, else create and write an empty index
_ensure_index(file, dim) ==
    IF file.exists THEN file ELSE [exists |-> TRUE, d |-> dim, vecs |-> <<>>]

\* index.add asserts the dimensionality of what it is given
AddRaises(index, vectors) == \E i \in DOMAIN vectors : vectors[i].dim # index.d

index_add(index, vectors) == [index EXCEPT !.vecs = @ \o vectors]

ntotal(file) == Len(file.vecs)

(***************************************************************************)
(* The page cache of ingest_pdf (indexer.py:127-168).  The cache entry of  *)
(* a run is the file <key>_pages.json: absent, or the pages of an earlier  *)
(* parse.  A heading is a string of the model alphabet in which "C" stands *)
(* for the word "Chương", "P" for "Phần", "B" for "Bài" and "<", ">" for   *)
(* the marks "<<", ">>".                                                   *)
(***************************************************************************)
NoEntry == [exists |-> FALSE, pages |-> <<>>]

Entry(pages) == [exists |-> TRUE, pages |-> pages]

StartsWith(str, c) == str # <<>> /\ str[1] = c

\* has_invalid: a marker among the first pages that is not of the expected form
has_invalid(pages) ==
    \E i \in DOMAIN Take(pages, CACHE_CHECK_PAGES) :
        LET ch == Strip(pages[i].chapter)
            le == Strip(pages[i].lesson)
        IN  \/ /\ ch # <<>>
               /\ \/ StartsWith(ch, "<")
                  \/ StartsWith(ch, ">")
                  \/ (~StartsWith(ch, "C") /\ ~StartsWith(ch, "P"))
            \/ /\ le # <<>>
               /\ \/ StartsWith(le, "<")
                  \/ StartsWith(le, ">")
                  \/ ~StartsWith(le, "B")

\* a cache check that accepts every cached parse
needs_reparse_never(pages) == FALSE

needs_reparse(pages) ==
    \/ ~\E i \in DOMAIN Take(pages, CACHE_CHECK_PAGES) :
            pages[i].chapter # <<>> \/ pages[i].lesson # <<>>
    \/ has_invalid(pages)

\* the pages an ingestion run works on, the calls of the parser, and the
\* cache entry the run leaves
load_pages(entry, doc, force_reparse, force_clear_cache) ==
    LET cleared == IF force_clear_cache THEN NoEntry ELSE entry
        parsed == [pages |-> parse_pdf_bytes(doc), parser_calls |-> 1,
                   entry |-> Entry(parse_pdf_bytes(doc))]
    IN  IF cleared.exists /\ ~force_reparse
        THEN IF needs_reparse(cleared.pages) THEN parsed
             ELSE [pages |-> cleared.pages, parser_calls |-> 0, entry |-> cleared]
        ELSE parsed

(***************************************************************************)
(* Ingestion (indexer.ingest_pdf), one whole run.                          *)
(*   fault = "fetch": requests.get raises (line 136)                       *)
(*   fault = "embed": the embedding service raises (line 257)              *)
(* The other aborts follow from the inputs and the persisted state:        *)
(*   "no_vectors": vectors[0] on an empty list (line 258)                  *)
(*   "dim":        index.add on a file of another dimensionality (272)     *)
(*   "lesson_keys": .keys() on the list structured[ch]["lessons"] (300)    *)
(***************************************************************************)
Aborted(cause, book_id) == Trace("ingest", "aborted", cause, book_id)

\* lines 304-319 for a run that gets past line 300, that is, with an empty
\* structured: page_assignments, chapter_id_map and lesson_id_map are empty,
\* and a chunk made by chunk_pages has no "chapter" or "lesson" key, so
\* neither chapter_id nor lesson_id is set.
tag_chunk(c) ==
    LET ch_title == None
        le_title == None
        chapter_id_map == <<>>
        lesson_id_map == <<>>
    IN  [c EXCEPT !.chapter_id = IF ch_title # None /\ ch_title \in DOMAIN chapter_id_map
                                 THEN chapter_id_map[ch_title] ELSE None,
                  !.lesson_id = IF le_title # None /\ le_title \in DOMAIN lesson_id_map
                                THEN lesson_id_map[le_title] ELSE None]

\* pages: what load_pages yields when the cache entry of the document is
\* absent or was written by an earlier run on the same document.
ingest_pdf(book_name, grade, doc, dim, fault) ==
    LET book_id == _compute_book_id(book_name, grade)
        pages == parse_pdf_bytes(doc)
        structured == structured_of(extract_toc_candidates(pages))
        chunks1 == delete_chunks_by_book(chunks, book_id)
        chapters1 == delete_chapters_by_book(chapters, book_id)
        lessons1 == delete_lessons_by_book(lessons, book_id)
        cs == chunk_pages(pages, book_name, ChunkSize, ChunkOverlap)
        texts == [i \in DOMAIN cs |-> cs[i].text]
        vectors == embed_texts(texts, EMBED_BATCH, dim)
        max_index == next_embedding_index(chunks1)
        index0 == _ensure_index(indexFile, dim)
        index1 == index_add(index0, vectors)
        chunks_to_insert ==
            [i \in DOMAIN cs |->
                [tag_chunk(cs[i]) EXCEPT !.embedding_index = max_index + (i - 1)]]
        parsed(t) == [t EXCEPT !.pages = pages, !.degraded = Cardinality(Degraded(doc))]
        page_assignments ==
            IF structured # <<>> THEN _build_page_assignments(structured) ELSE <<>>
        appended(t) == [parsed(t) EXCEPT !.appended = Len(vectors),
                                         !.structured = structured,
                                         !.page_map = page_assignments]
        returned(t) == [appended(t) EXCEPT !.total_pages = Len(pages)]
    IN  IF fault = "fetch"
        THEN /\ UNCHANGED persisted
             /\ clean' = FALSE
             /\ UNCHANGED runs
             /\ last' = Aborted("fetch", book_id)
        ELSE /\ chapters' = chapters1
             /\ lessons' = lessons1
             /\ IF fault = "embed" \/ vectors = <<>>
                THEN /\ chunks' = chunks1
                     /\ UNCHANGED <<indexFile, books>>
                     /\ clean' = FALSE
                     /\ UNCHANGED runs
                     /\ last' = parsed(Aborted(IF fault = "embed" THEN "embed"
                                                ELSE "no_vectors", book_id))
                ELSE IF AddRaises(index0, vectors)
                THEN /\ chunks' = chunks1
                     /\ indexFile' = index0
                     /\ UNCHANGED books
                     /\ clean' = FALSE
                     /\ UNCHANGED runs
                     /\ last' = parsed(Aborted("dim", book_id))
                ELSE /\ ntotal(index1) <= MaxIndex
                     /\ indexFile' = index1
                     /\ IF structured # <<>>
                        THEN /\ chunks' = chunks1
                             /\ UNCHANGED books
                             /\ clean' = FALSE
                             /\ UNCHANGED runs
                             /\ last' = appended(Aborted("lesson_keys", book_id))
                        ELSE /\ chunks' = insert_chunks(chunks1, chunks_to_insert, book_id)
                             /\ books' = upsert_book(books, book_id, book_name, grade, <<>>)
                             /\ UNCHANGED clean
                             /\ UNCHANGED runs
                             /\ last' = returned(Trace("ingest", "completed", "", book_id))

Ingest(names, grades, docs, dims, faults) ==
    \E book_name \in names, grade \in grades, doc \in docs, dim \in dims,
       fault \in faults :
        ingest_pdf(book_name, grade, doc, dim, fault)

IngestBook == Ingest(RawNames, Grades, Docs, Dims, Faults)

(***************************************************************************)
(* Index rebuild.  rebuild_faiss_index is imported by api/ingest.py from   *)
(* services/indexer.py, which does not define it; it is taken from the     *)
(* design: drop the index, re-add every surviving chunk in embedding_index *)
(* order, and reassign embedding_index in that single pass.                *)
(***************************************************************************)
RankOf(rows, i) ==
    Cardinality({ j \in DOMAIN rows :
                    \/ rows[j].embedding_index < rows[i].embedding_index
                    \/ rows[j].embedding_index = rows[i].embedding_index /\ j < i })

rebuild_chunks(rows) ==
    [i \in DOMAIN rows |-> [rows[i] EXCEPT !.embedding_index = RankOf(rows, i)]]

rebuild_index(rows, dim) ==
    [exists |-> TRUE, d |-> dim,
     vecs |-> [r \in 1..Len(rows) |->
                 LET i == CHOOSE j \in DOMAIN rows : RankOf(rows, j) = r - 1
                 IN  [dim |-> dim, of |-> rows[i].text]]]

(***************************************************************************)
(* Deletion through the ingestion API (api/ingest.py).                     *)
(***************************************************************************)
CountBook(rows, book_id) == Len(SelectSeq(rows, LAMBDA r : r.book_id = book_id))

_delete_book_resources(op, book_id, dim) ==
    LET chunks1 == delete_chunks_by_book(chunks, book_id)
    IN  /\ chunks' = rebuild_chunks(chunks1)
        /\ lessons' = delete_lessons_by_book(lessons, book_id)
        /\ chapters' = delete_chapters_by_book(chapters, book_id)
        /\ books' = delete_book(books, book_id)
        /\ indexFile' = rebuild_index(chunks1, dim)
        /\ UNCHANGED clean
        /\ UNCHANGED runs
        /\ last' = [Trace(op, "deleted", "", book_id)
                      EXCEPT !.removed = CountBook(chunks, book_id)]

NotFound(op, book_id) ==
    /\ UNCHANGED <<persisted, clean>>
    /\ UNCHANGED runs
    /\ last' = Trace(op, "not_found", "", book_id)

delete_ingested_book_by_id(book_id, dim) ==
    IF get_book_by_id(books, book_id) = <<>>
    THEN NotFound("delete_by_id", book_id)
    ELSE _delete_book_resources("delete_by_id", book_id, dim)

delete_ingested_book(book_name, dim) ==
    LET found == get_book_by_name(books, book_name)
    IN  IF found = <<>>
        THEN NotFound("delete_by_name", None)
        ELSE _delete_book_resources("delete_by_name", found[1].book_id, dim)

(***************************************************************************)
(* Deletion through the books CRUD API (api/books.py).                     *)
(***************************************************************************)
books_delete_book(book_id) ==
    IF get_book_by_id(books, book_id) = <<>>
    THEN NotFound("books_delete", book_id)
    ELSE /\ chapters' = delete_chapters_by_book(chapters, book_id)
         /\ lessons' = delete_lessons_by_book(lessons, book_id)
         /\ chunks' = delete_chunks_by_book(chunks, book_id)
         /\ books' = delete_book(books, book_id)
         /\ UNCHANGED <<indexFile, clean>>
         /\ UNCHANGED runs
         /\ last' = [Trace("books_delete", "deleted", "", book_id)
                       EXCEPT !.removed = CountBook(chunks, book_id)]

DeleteIngestedBookById == \E book_id \in BookIds, dim \in Dims : delete_ingested_book_by_id(book_id, dim)

DeleteIngestedBook == \E book_name \in RawNames, dim \in Dims : delete_ingested_book(book_name, dim)

DeleteBook == \E book_id \in BookIds : books_delete_book(book_id)

(***************************************************************************)
(* Chapter and lesson CRUD (api/chapters.py, api/lessons.py).              *)
(***************************************************************************)
Titles == { <<"C">> }
LessonTitles == { <<"B">> }

create_chapter(book_id, title, order) ==
    LET chapter_id == _compute_chapter_id(book_id, title)
    IN  IF get_book_by_id(books, book_id) = <<>>
           \/ get_chapter_by_id(chapters, chapter_id) # <<>>
        THEN NotFound("create_chapter", book_id)
        ELSE /\ Len(chapters) < MaxRows
             /\ chapters' = upsert_chapter(chapters, chapter_id, book_id, title, order)
             /\ UNCHANGED <<indexFile, books, lessons, chunks, clean>>
             /\ UNCHANGED runs
             /\ last' = Trace("create_chapter", "created", "", book_id)

create_lesson(book_id, chapter_id, title, page, order) ==
    LET lesson_id == _compute_lesson_id(chapter_id, title)
    IN  IF get_chapter_by_id(chapters, chapter_id) = <<>>
           \/ get_book_by_id(books, book_id) = <<>>
           \/ get_lesson_by_id(lessons, lesson_id) # <<>>
        THEN NotFound("create_lesson", book_id)
        ELSE /\ Len(lessons) < MaxRows
             /\ lessons' = upsert_lesson(lessons, lesson_id, chapter_id, book_id,
                                         title, page, order)
             /\ UNCHANGED <<indexFile, books, chapters, chunks, clean>>
             /\ UNCHANGED runs
             /\ last' = Trace("create_lesson", "created", "", book_id)

\* POST /books: 400 when the id exists, else a Book row with no structure
create_book(book_name, grade) ==
    LET book_id == _compute_book_id(book_name, grade)
    IN  IF get_book_by_id(books, book_id) # <<>>
        THEN NotFound("create_book", book_id)
        ELSE /\ books' = upsert_book(books, book_id, book_name, grade, <<>>)
             /\ UNCHANGED <<indexFile, chapters, lessons, chunks, clean>>
             /\ UNCHANGED runs
             /\ last' = Trace("create_book", "created", "", book_id)

CreateBooks(names) == \E book_name \in names, grade \in Grades : create_book(book_name, grade)

CreateBook == CreateBooks(RawNames)

CreateBookPlain == CreateBooks({<<"T">>})

ChapterIds == { _compute_chapter_id(b, t) : b \in BookIds, t \in Titles }

LessonIds == { _compute_lesson_id(c, t) : c \in ChapterIds, t \in LessonTitles }

CreateChapter == \E book_id \in BookIds, title \in Titles : create_chapter(book_id, title, 0)

CreateLesson ==
    \E book_id \in BookIds, chapter_id \in ChapterIds, title \in LessonTitles :
        create_lesson(book_id, chapter_id, title, 1, 0)

(***************************************************************************)
(* Retrieval (services/rag_engine.rag_query, api/rag.rag_query_endpoint).  *)
(***************************************************************************)
Dists == {20, 35, 50}       \* L2 distances, in hundredths

\* the texts whose vectors the index file holds
IndexedTexts == { indexFile.vecs[i].of : i \in DOMAIN indexFile.vecs }

\* index.search(qvec, k): the k nearest positions (0-based), nearest first;
\* dist gives the distance of the query to the vector of each text.
SearchRank(index, dist, i) ==
    Cardinality({ j \in DOMAIN index.vecs :
                    \/ dist[index.vecs[j].of] < dist[index.vecs[i].of]
                    \/ dist[index.vecs[j].of] = dist[index.vecs[i].of] /\ j < i })

index_search(index, dist, k) ==
    [r \in 1..k |->
        LET i == CHOOSE j \in DOMAIN index.vecs : SearchRank(index, dist, j) = r - 1
        IN  [idx |-> i - 1, dist |-> dist[index.vecs[i].of]]]

\* ChunkRepository.get_chunks_by_indices: a map embedding_index -> chunk
\* (a later row replaces an earlier one), read in the order of idxs.
chunks_map(rows, idx) ==
    LET hits == SelectSeq(rows, LAMBDA r : r.embedding_index = idx)
    IN  IF hits = <<>> THEN <<>> ELSE <<hits[Len(hits)]>>

get_chunks_by_indices(rows, idxs) ==
    Flatten([i \in DOMAIN idxs |-> chunks_map(rows, idxs[i])])

\* the exact level without the chapter test
filter_exact_any_chapter(cs, book_id, chapter_id, lesson_id) ==
    SelectSeq(cs, LAMBDA c : c.book_id = book_id /\ c.lesson_id = lesson_id)

\* the three filter levels of rag_query, the first non-empty one
filter_exact(cs, book_id, chapter_id, lesson_id) ==
    SelectSeq(cs, LAMBDA c : /\ c.book_id = book_id
                             /\ c.chapter_id = chapter_id
                             /\ c.lesson_id = lesson_id)

filter_chapter(cs, book_id, chapter_id) ==
    SelectSeq(cs, LAMBDA c : c.book_id = book_id /\ c.chapter_id = chapter_id)

filter_book(cs, book_id) == SelectSeq(cs, LAMBDA c : c.book_id = book_id)

\* no narrowing: the book level whatever the narrower levels hold
filter_chunks_book_only(cs, book_id, chapter_id, lesson_id) ==
    SelectSeq(cs, LAMBDA c : c.book_id = book_id)

filter_chunks(cs, book_id, chapter_id, lesson_id) ==
    IF filter_exact(cs, book_id, chapter_id, lesson_id) # <<>>
    THEN filter_exact(cs, book_id, chapter_id, lesson_id)
    ELSE IF filter_chapter(cs, book_id, chapter_id) # <<>>
    THEN filter_chapter(cs, book_id, chapter_id)
    ELSE filter_book(cs, book_id)

\* what the text-generation service does with a request: answers with a
\* JSON outline, answers with something json.loads rejects, or raises
LlmOutcomes == {"ok", "bad_json", "raises"}

\* _call_llm whose failures come back without a note
_call_llm_silent(key, llm) ==
    IF key /\ llm = "ok"
    THEN [sections |-> <<"section">>, note |-> "", calls |-> 1]
    ELSE [sections |-> <<>>, note |-> "", calls |-> IF key THEN 1 ELSE 0]

\* _call_llm: every failure is caught and becomes a note

_call_llm(key, llm) ==
    IF ~key THEN [sections |-> <<>>, note |-> "no_api_key", calls |-> 0]
    ELSE IF llm = "bad_json" THEN [sections |-> <<>>, note |-> "bad_json", calls |-> 1]
    ELSE IF llm = "raises" THEN [sections |-> <<>>, note |-> "llm_error", calls |-> 1]
    ELSE [sections |-> <<"section">>, note |-> "", calls |-> 1]

TitleOf(rows) == IF rows = <<>> THEN <<"N/A">> ELSE rows[1].title

NameOf(rows) == IF rows = <<>> THEN <<"N/A">> ELSE rows[1].book_name

Confidence(d) == IF 100 - d > 0 THEN 100 - d ELSE 0

\* the citation of the i-th surviving chunk: dists[i] is the i-th distance
\* of the whole sorted search result
source_of(chunk, i, dists) ==
    [book |-> NameOf(get_book_by_id(books, chunk.book_id)),
     chapter |-> IF chunk.chapter_id = None THEN <<"N/A">>
                 ELSE TitleOf(get_chapter_by_id(chapters, chunk.chapter_id)),
     lesson |-> IF chunk.lesson_id = None THEN <<"N/A">>
                ELSE TitleOf(get_lesson_by_id(lessons, chunk.lesson_id)),
     page |-> chunk.page,
     confidence |-> Confidence(IF i <= Len(dists) THEN dists[i] ELSE 100)]

Note(n) == [NoOut EXCEPT !.note = n]

Raise(e) == [NoOut EXCEPT !.raised = e]

\* citations without the [:3]
cite_all(filtered_chunks, dists) ==
    [i \in DOMAIN filtered_chunks |-> source_of(filtered_chunks[i], i, dists)]

\* outline["sources"]: one citation for each of filtered_chunks[:3]
cite(filtered_chunks, dists) ==
    [i \in 1..Min2(TOP_SOURCES, Len(filtered_chunks)) |->
        source_of(filtered_chunks[i], i, dists)]

\* rag_query from the scope filter on: filter, relevance gate, generation,
\* citations, and the distances and indices returned with the outline
rag_answer(retrieved_chunks, idxs, dists, book_id, chapter_id, lesson_id, key, llm) ==
    LET filtered_chunks == filter_chunks(retrieved_chunks, book_id, chapter_id, lesson_id)
        n == Len(filtered_chunks)
        done == [NoOut EXCEPT !.best = dists[1], !.retrieved = retrieved_chunks,
                              !.filtered = filtered_chunks,
                              !.distances = Take(dists, n), !.indices = Take(idxs, n)]
        outline == _call_llm(key, llm)
    IN  IF filtered_chunks = <<>> \/ dists[1] > RELEVANCE_THRESHOLD
        THEN [done EXCEPT !.note = "low_relevance",
                          !.gate = IF filtered_chunks = <<>> THEN "scope" ELSE "distance"]
        ELSE [done EXCEPT !.sections = outline.sections, !.note = outline.note,
                          !.llm_calls = outline.calls, !.gate = "passed",
                          !.llm = IF key THEN llm ELSE "no_key",
                          !.sources = cite(filtered_chunks, dists)]

\* the pairs of the search result, none filtered out
valid_pairs_all(found, num_vectors_in_index) == found

\* the (idx, dist) pairs whose idx is a position of the index
valid_pairs(found, num_vectors_in_index) ==
    SelectSeq(found, LAMBDA f : f.idx >= 0 /\ f.idx < num_vectors_in_index)

\* valid_pairs.sort(key=lambda x: x[1]): stable, ascending by distance
sort_by_dist(pairs) ==
    LET pos(i) == 1 + Cardinality({ j \in DOMAIN pairs :
                        \/ pairs[j].dist < pairs[i].dist
                        \/ pairs[j].dist = pairs[i].dist /\ j < i })
    IN  [r \in DOMAIN pairs |-> pairs[CHOOSE i \in DOMAIN pairs : pos(i) = r]]

\* rag_query from the search result on: drop the invalid indices, sort by
\* distance, read the chunks of the remaining indices, then filter and answer
rag_lookup(found, num_vectors_in_index, book_id, chapter_id, lesson_id, key, llm) ==
    LET sorted == sort_by_dist(valid_pairs(found, num_vectors_in_index))
        idxs == [i \in DOMAIN sorted |-> sorted[i].idx]
        dists == [i \in DOMAIN sorted |-> sorted[i].dist]
        retrieved_chunks == get_chunks_by_indices(chunks, idxs)
    IN  IF sorted = <<>>
        THEN [Note("no_valid_index") EXCEPT !.embed_calls = 1, !.searches = 1]
        ELSE [rag_answer(retrieved_chunks, idxs, dists, book_id, chapter_id,
                         lesson_id, key, llm)
                EXCEPT !.embed_calls = 1, !.searches = 1, !.looked_up = idxs]

rag_query(book_id, chapter_id, lesson_id, k, dist, dim_ok, key, llm) ==
    IF get_lesson_by_id(lessons, lesson_id) = <<>> THEN Note("lesson_not_found")
    ELSE IF get_book_by_id(books, book_id) = <<>> THEN Note("book_not_found")
    ELSE IF ~key THEN Raise("ValueError")
    ELSE IF ~indexFile.exists
    THEN [Raise("FileNotFoundError") EXCEPT !.embed_calls = 1]
    ELSE IF ntotal(indexFile) = 0
    THEN [Note("no_data") EXCEPT !.embed_calls = 1]
    ELSE IF ~dim_ok \/ Min2(k * OVERSAMPLE, ntotal(indexFile)) <= 0
    THEN [Note("search_error") EXCEPT !.embed_calls = 1, !.searches = 1]
    ELSE rag_lookup(index_search(indexFile, dist, Min2(k * OVERSAMPLE, ntotal(indexFile))),
                    ntotal(indexFile), book_id, chapter_id, lesson_id, key, llm)

\* The endpoint: 404 / 400 before the query; after it, one more
\* text-generation call (the teaching content) whenever a key is configured.
rag_query_endpoint(pre, book_id, chapter_id, lesson_id, k, dist, dim_ok, key, llm) ==
    LET out == rag_query(book_id, chapter_id, lesson_id, k, dist, dim_ok, key, llm)
        response ==
            IF pre = "no_grade" \/ get_book_by_id(books, book_id) = <<>> THEN Raise("404")
            ELSE IF pre = "subject_mismatch" THEN Raise("400")
            ELSE IF out.raised # "" THEN out
            ELSE [out EXCEPT !.content_calls = IF key THEN 1 ELSE 0]
    IN  /\ UNCHANGED <<persisted, clean>>
        /\ UNCHANGED runs
        /\ last' = [Trace("query", "done", "", book_id)
                      EXCEPT !.out = response,
                             !.scope = <<book_id, chapter_id, lesson_id>>]

\* The circumstances of a request: the endpoint's own checks (pre), the
\* requested k, whether the query vector has the dimensionality of the index
\* file (index.search raises otherwise, as it does for k <= 0), whether
\* OPENAI_API_KEY is configured, and what the text-generation service does.
PreChecks == {"ok", "no_grade", "subject_mismatch"}

Nominal == [pre |-> "ok", k |-> 1, dim_ok |-> TRUE, key |-> TRUE, llm |-> "ok"]

Envs ==
    { [Nominal EXCEPT !.llm = l] : l \in LlmOutcomes }
    \cup { [Nominal EXCEPT !.pre = c] : c \in PreChecks }
    \cup { [Nominal EXCEPT !.key = FALSE], [Nominal EXCEPT !.dim_ok = FALSE],
           [Nominal EXCEPT !.k = 0] }

\* the request scopes: a book with its own chapter and lesson, with the
\* chapter and lesson of another book, and with a chapter nobody created
Scopes ==
    { <<b, _compute_chapter_id(c, t), _compute_lesson_id(_compute_chapter_id(c, t), u)>> :
        b \in BookIds, c \in BookIds, t \in Titles, u \in LessonTitles }
    \cup { <<b, _compute_chapter_id(b, <<"X">>),
              _compute_lesson_id(_compute_chapter_id(b, t), u)>> :
        b \in BookIds, t \in Titles, u \in LessonTitles }

\* index.search answers with the distances of the stored vectors to the
\* query: any distances when everything else works, distances within the
\* threshold when the text-generation service is the one that fails;
\* requests that fail before the search never see them.
SearchAnswers(env) ==
    IF env = Nominal
    THEN [IndexedTexts -> Dists]
    ELSE { [t \in IndexedTexts |-> RELEVANCE_THRESHOLD] }

RagQuery ==
    \E scope \in Scopes, env \in Envs : \E dist \in SearchAnswers(env) :
        rag_query_endpoint(env.pre, scope[1], scope[2], scope[3], env.k, dist,
                           env.dim_ok, env.key, env.llm)

(***************************************************************************)
(* Specification.                                                          *)
(***************************************************************************)
Init ==
    /\ indexFile = NoFile
    /\ books = <<>>
    /\ chapters = <<>>
    /\ lessons = <<>>
    /\ chunks = <<>>
    /\ clean = TRUE
    /\ runs = <<>>
    /\ last = Trace("init", "", "", None)

Next ==
    \/ IngestBook
    \/ DeleteIngestedBookById
    \/ DeleteIngestedBook
    \/ DeleteBook

Spec == Init /\ [][Next]_vars

(***************************************************************************)
(* The same service seen from the retrieval side: ingestion with a working *)
(* embedding service of one dimensionality, the books / chapter / lesson   *)
(* CRUD, and queries.                                                      *)
(***************************************************************************)
IngestPlain == Ingest({<<"T">>}, Grades, {DocOne, DocTwo}, {2}, {"none"})

NextQuery ==
    \/ IngestPlain
    \/ CreateBookPlain
    \/ CreateChapter
    \/ CreateLesson
    \/ RagQuery

SpecQuery == Init /\ [][NextQuery]_vars

(***************************************************************************)
(* The entity tables: ingestion under either spelling of the book name,    *)
(* with and without detected headings, and the CRUD API.                   *)
(***************************************************************************)
IngestNamed == Ingest(RawNames, Grades, {DocOne, DocHead}, {2}, {"none"})

NextCrud ==
    \/ IngestNamed
    \/ CreateBook
    \/ DeleteBook
    \/ CreateChapter
    \/ CreateLesson

SpecCrud == Init /\ [][NextCrud]_vars

(***************************************************************************)
(* Ingestion of books whose first heading lies beyond the pages scanned    *)
(* for the table of contents, of books without headings and of books with  *)
(* two chapters that hold a lesson of the same title, and the books        *)
(* delete.                                                                 *)
(***************************************************************************)
IngestLate == Ingest({<<"T">>}, Grades, {DocOne, DocLate, DocTwin}, {2}, {"none"})

NextLate ==
    \/ IngestLate
    \/ DeleteBook

SpecLate == Init /\ [][NextLate]_vars

(***************************************************************************)
(* rag_query from the scope filter on (rag_engine.py:367-453), on any      *)
(* retrieved passages, tagged or not, any requested scope and any answer   *)
(* of the text-generation service; every passage lies within the           *)
(* relevance threshold.                                                    *)
(***************************************************************************)
AnyChapter == _compute_chapter_id(_compute_book_id(<<"T">>, 1), <<"C">>)

OtherChapter == _compute_chapter_id(_compute_book_id(<<"T">>, 1), <<"X">>)

AnyLesson == _compute_lesson_id(AnyChapter, <<"B">>)

OneBook == _compute_book_id(<<"T">>, 1)

OtherBook == _compute_book_id(<<"T">>, 2)

\* what a retrieved passage may carry as book_id, chapter_id, lesson_id:
\* any tagging within one book, none or all of it within another
PassageTags ==
    ({OneBook} \X {None, AnyChapter} \X {None, AnyLesson})
        \cup {<<OtherBook, None, None>>, <<OtherBook, AnyChapter, AnyLesson>>}

TagSeqs == UNION { [1..n -> PassageTags] : n \in 1..MaxRetrieved }

Retrieved(tags) ==
    [i \in DOMAIN tags |->
        [chunk_id |-> i, page |-> i, text |-> <<"p">>,
         chapter_id |-> tags[i][2], lesson_id |-> tags[i][3],
         book_id |-> tags[i][1], embedding_index |-> i - 1]]

FilterScopes ==
    BookIds \X {AnyChapter, OtherChapter}
            \X {AnyLesson, _compute_lesson_id(AnyChapter, <<"X">>)}

InitFilter ==
    /\ indexFile = NoFile
    /\ books = <<>>
    /\ chapters = <<>>
    /\ lessons = <<>>
    /\ chunks \in { Retrieved(tags) : tags \in TagSeqs }
    /\ clean = TRUE
    /\ runs = <<>>
    /\ last = Trace("init", "", "", None)

FilterRetrieved ==
    \E scope \in FilterScopes, llm \in LlmOutcomes :
        LET idxs == [i \in DOMAIN chunks |-> chunks[i].embedding_index]
            dists == [i \in DOMAIN chunks |-> RELEVANCE_THRESHOLD]
        IN  /\ chunks # <<>>
            /\ UNCHANGED <<persisted, clean>>
            /\ UNCHANGED runs
            /\ last' = [Trace("filter", "done", "", scope[1])
                          EXCEPT !.scope = scope,
                                 !.out = rag_answer(chunks, idxs, dists, scope[1],
                                                    scope[2], scope[3], TRUE, llm)]

NextFilter == FilterRetrieved

SpecFilter == InitFilter /\ [][NextFilter]_vars

(***************************************************************************)
(* rag_query from the search result on (rag_engine.py:318-453), on any     *)
(* answer of index.search: indices of the index, the sentinel -1, indices  *)
(* past the end, in any order and with any distances.  The index file      *)
(* holds three vectors; the passage store holds a chunk of the requested   *)
(* book at embedding_index 2 and, at 0 and at 1, a chunk of that book, a   *)
(* chunk of another book, or none (a store left behind by deletions).      *)
(***************************************************************************)
StoredChunk(e, book_id) ==
    [chunk_id |-> e + 1, page |-> e + 1, text |-> <<"p">>, chapter_id |-> None,
     lesson_id |-> None, book_id |-> book_id, embedding_index |-> e]

StoreAt(e) == { <<>>, <<StoredChunk(e, OneBook)>>, <<StoredChunk(e, OtherBook)>> }

Stores == { a \o b \o <<StoredChunk(2, OneBook)>> : a \in StoreAt(0), b \in StoreAt(1) }

SearchedIndex ==
    [exists |-> TRUE, d |-> 2,
     vecs |-> << [dim |-> 2, of |-> <<"p">>], [dim |-> 2, of |-> <<"p">>],
                 [dim |-> 2, of |-> <<"p">>] >>]

FoundPairs == [idx : (0 - 1)..ntotal(SearchedIndex), dist : {20, 50}]

RawResults == UNION { [1..n -> FoundPairs] : n \in 1..MaxFound }

InitSearch ==
    /\ indexFile = SearchedIndex
    /\ books = <<>>
    /\ chapters = <<>>
    /\ lessons = <<>>
    /\ chunks \in Stores
    /\ clean = TRUE
    /\ runs = <<>>
    /\ \E found \in RawResults :
            last = [Trace("search", "input", "", OneBook) EXCEPT !.found = found]

LookUp ==
    /\ last.op = "search"
    /\ last.status = "input"
    /\ UNCHANGED <<persisted, clean>>
    /\ UNCHANGED runs
    /\ last' = [last EXCEPT !.status = "done",
                            !.scope = <<OneBook, OtherChapter, AnyLesson>>,
                            !.out = rag_lookup(last.found, ntotal(indexFile), OneBook,
                                               OtherChapter, AnyLesson, TRUE, "ok")]

NextSearch == LookUp

SpecSearch == InitSearch /\ [][NextSearch]_vars

(***************************************************************************)
(* The page cache on its own: the cache step of ingest_pdf applied to      *)
(* every cache entry (absent, or a cached parse of one or two pages, or of *)
(* CACHE_CHECK_PAGES + 1 pages with markers on the first and the last      *)
(* page), every setting of the two flags, and a document to parse.         *)
(***************************************************************************)
CachedPage(i, ch, le) == [page_num |-> i, text |-> <<"p">>, chapter |-> ch, lesson |-> le]

CachedMarkers ==
    { None, <<"C">>, <<"<", "C">>, <<"X">> } \X { None, <<"B">>, <<"<", "B">> }

CachedParses ==
    { << CachedPage(1, m[1], m[2]) >> : m \in CachedMarkers }
    \cup { << CachedPage(1, m[1], m[2]), CachedPage(2, n[1], n[2]) >> :
             m \in CachedMarkers, n \in CachedMarkers }
    \cup { [i \in 1..(CACHE_CHECK_PAGES + 1) |->
                IF i = 1 THEN CachedPage(i, m[1], m[2])
                ELSE IF i = CACHE_CHECK_PAGES + 1 THEN CachedPage(i, n[1], n[2])
                ELSE CachedPage(i, None, None)] :
             m \in CachedMarkers, n \in CachedMarkers }

CacheEntries == {NoEntry} \cup { Entry(pages) : pages \in CachedParses }

InitCache ==
    /\ indexFile = NoFile
    /\ books = <<>>
    /\ chapters = <<>>
    /\ lessons = <<>>
    /\ chunks = <<>>
    /\ clean = TRUE
    /\ runs = <<>>
    /\ \E entry \in CacheEntries, doc \in {DocOne, DocHead},
          force_reparse \in BOOLEAN, force_clear_cache \in BOOLEAN :
            last = [Trace("cache", "input", "", None)
                      EXCEPT !.doc = doc,
                             !.request = [entry |-> entry,
                                          force_reparse |-> force_reparse,
                                          force_clear_cache |-> force_clear_cache]]

LoadPages ==
    /\ last.op = "cache"
    /\ last.status = "input"
    /\ UNCHANGED <<persisted, clean>>
    /\ UNCHANGED runs
    /\ last' = [last EXCEPT !.status = "done",
                            !.loaded = load_pages(last.request.entry, last.doc,
                                                  last.request.force_reparse,
                                                  last.request.force_clear_cache)]

NextCache == LoadPages

SpecCache == InitCache /\ [][NextCache]_vars

(***************************************************************************)
(* The embedder on its own: embed_texts applied to every list of up to     *)
(* MaxTexts texts with every batch size up to MaxBatch.                    *)
(***************************************************************************)
TextLists == UNION { [1..n -> {<<"p">>, <<"q">>, <<"r">>}] : n \in 0..MaxTexts }

InitEmbed ==
    /\ indexFile = NoFile
    /\ books = <<>>
    /\ chapters = <<>>
    /\ lessons = <<>>
    /\ chunks = <<>>
    /\ clean = TRUE
    /\ runs = <<>>
    /\ \E texts \in TextLists, batch_size \in 1..MaxBatch :
            last = [Trace("embed", "input", "", None)
                      EXCEPT !.request = [texts |-> texts, batch_size |-> batch_size]]

EmbedTexts ==
    /\ last.op = "embed"
    /\ last.status = "input"
    /\ UNCHANGED <<persisted, clean>>
    /\ UNCHANGED runs
    /\ last' = [last EXCEPT !.status = "done",
                            !.loaded = embed_texts(last.request.texts,
                                                   last.request.batch_size, 2)]

NextEmbed == EmbedTexts

SpecEmbed == InitEmbed /\ [][NextEmbed]_vars

(***************************************************************************)
(* Two ingestion runs at the granularity of their storage steps.  Each run *)
(* is ingest_pdf from line 251 on, for a book of its own and a document    *)
(* without headings, with the embedding service working: delete the book's *)
(* rows and embed (251-258), read the maximum embedding_index (262-269),   *)
(* load the index file (271), add the vectors (272), write the index file  *)
(* (273), insert the chunks and the book (339-357).  Nothing orders the    *)
(* steps of one run against those of the other.  Before the runs, the      *)
(* store is empty or holds one book with one chunk.                        *)
(***************************************************************************)
RunIds == {1, 2}

RunDoc(r) == IF r = 1 THEN DocOne ELSE << Page(<<"q">>, None, None) >>

RunStart(r) ==
    [pc |-> "begin", book_name |-> <<"T">>, grade |-> r, cs |-> <<>>, vectors |-> <<>>,
     max_index |-> 0, loaded |-> NoFile, index |-> NoFile, stale |-> FALSE]

SeedChunk ==
    [chunk_id |-> 1, page |-> 1, text |-> <<"p">>, chapter_id |-> None,
     lesson_id |-> None, book_id |-> _compute_book_id(<<" ", "t">>, 1),
     embedding_index |-> 0]

InitRace ==
    /\ \/ /\ indexFile = NoFile
          /\ chunks = <<>>
       \/ /\ indexFile = [exists |-> TRUE, d |-> 2,
                           vecs |-> << [dim |-> 2, of |-> <<"p">>] >>]
          /\ chunks = << SeedChunk >>
    /\ books = <<>>
    /\ chapters = <<>>
    /\ lessons = <<>>
    /\ clean = TRUE
    /\ last = Trace("init", "", "", None)
    /\ runs = [r \in RunIds |-> RunStart(r)]

\* faiss.write_index(index, INDEX_PATH) that appends to what the file holds
write_index_merge(file, run) == [file EXCEPT !.vecs = @ \o run.vectors]

\* faiss.write_index(index, INDEX_PATH): the file becomes the run's index
write_index(file, run) == run.index

BeginRun(r) ==
    LET run == runs[r]
        book_id == _compute_book_id(run.book_name, run.grade)
        cs == chunk_pages(parse_pdf_bytes(RunDoc(r)), run.book_name, ChunkSize, ChunkOverlap)
        texts == [i \in DOMAIN cs |-> cs[i].text]
    IN  /\ run.pc = "begin"
        /\ chunks' = delete_chunks_by_book(chunks, book_id)
        /\ chapters' = delete_chapters_by_book(chapters, book_id)
        /\ lessons' = delete_lessons_by_book(lessons, book_id)
        /\ runs' = [runs EXCEPT ![r] = [run EXCEPT !.pc = "read_max", !.cs = cs,
                                        !.vectors = embed_texts(texts, EMBED_BATCH, 2)]]
        /\ UNCHANGED <<indexFile, books, clean, last>>

ReadMaxIndex(r) ==
    /\ runs[r].pc = "read_max"
    /\ runs' = [runs EXCEPT ![r] = [@ EXCEPT !.pc = "load",
                                             !.max_index = next_embedding_index(chunks)]]
    /\ UNCHANGED <<persisted, clean, last>>

LoadIndex(r) ==
    /\ runs[r].pc = "load"
    /\ indexFile' = _ensure_index(indexFile, 2)
    /\ runs' = [runs EXCEPT ![r] = [@ EXCEPT !.pc = "add",
                                             !.loaded = _ensure_index(indexFile, 2),
                                             !.index = _ensure_index(indexFile, 2)]]
    /\ UNCHANGED <<books, chapters, lessons, chunks, clean, last>>

AddVectors(r) ==
    /\ runs[r].pc = "add"
    /\ runs' = [runs EXCEPT ![r] = [@ EXCEPT !.pc = "write",
                                             !.index = index_add(@, runs[r].vectors)]]
    /\ UNCHANGED <<persisted, clean, last>>

WriteIndex(r) ==
    /\ runs[r].pc = "write"
    /\ indexFile' = write_index(indexFile, runs[r])
    /\ runs' = [runs EXCEPT ![r] = [@ EXCEPT !.pc = "insert",
                                             !.stale = (indexFile # runs[r].loaded)]]
    /\ UNCHANGED <<books, chapters, lessons, chunks, clean, last>>

InsertChunks(r) ==
    LET run == runs[r]
        book_id == _compute_book_id(run.book_name, run.grade)
        chunks_to_insert ==
            [i \in DOMAIN run.cs |->
                [tag_chunk(run.cs[i]) EXCEPT !.embedding_index = run.max_index + (i - 1)]]
    IN  /\ run.pc = "insert"
        /\ chunks' = insert_chunks(chunks, chunks_to_insert, book_id)
        /\ books' = upsert_book(books, book_id, run.book_name, run.grade, <<>>)
        /\ runs' = [runs EXCEPT ![r] = [run EXCEPT !.pc = "done"]]
        /\ last' = [Trace("ingest", "completed", "", book_id)
                      EXCEPT !.appended = Len(run.vectors)]
        /\ UNCHANGED <<indexFile, chapters, lessons, clean>>

NextRace ==
    \E r \in RunIds :
        \/ BeginRun(r)
        \/ ReadMaxIndex(r)
        \/ LoadIndex(r)
        \/ AddVectors(r)
        \/ WriteIndex(r)
        \/ InsertChunks(r)

SpecRace == InitRace /\ [][NextRace]_vars

(***************************************************************************)
(* The extractor on its own: parse_pdf_bytes applied to every document of  *)
(* up to MaxPages pages.  A document with a text layer is read page by     *)
(* page from that layer; any other document goes through OCR, where each   *)
(* page independently succeeds ("ocr"), hits an image error recovered by   *)
(* the direct text of the page ("direct"), fails both ways ("failed"), or  *)
(* raises something else ("error").                                        *)
(***************************************************************************)
Headings ==
    { <<None, None>>, <<<<"C">>, None>>, <<<<"C">>, <<"B">>>>, <<<<"D">>, None>>,
      <<None, <<"A">>>> }

TextLayerPages == { RawPage("text", <<"p">>, h[1], h[2]) : h \in Headings }

OcrPages ==
    { RawPage(o, <<"p">>, h[1], h[2]) : o \in PageOutcomes \ {"text"}, h \in Headings }

RawDocs ==
    UNION { [1..n -> TextLayerPages] \cup [1..n -> OcrPages] : n \in 1..MaxPages }

InitParse ==
    /\ indexFile = NoFile
    /\ books = <<>>
    /\ chapters = <<>>
    /\ lessons = <<>>
    /\ chunks = <<>>
    /\ clean = TRUE
    /\ runs = <<>>
    /\ \E doc \in RawDocs :
            last = [Trace("parse", "input", "", None) EXCEPT !.doc = doc]

ParseDocument ==
    /\ last.op = "parse"
    /\ last.status = "input"
    /\ UNCHANGED runs
    /\ last' = [last EXCEPT !.status = "done", !.pages = parse_pdf_bytes(last.doc),
                            !.degraded = Cardinality(Degraded(last.doc))]
    /\ UNCHANGED <<indexFile, books, chapters, lessons, chunks, clean>>

NextParse == ParseDocument

SpecParse == InitParse /\ [][NextParse]_vars

(***************************************************************************)
(* The range map on its own: _build_page_assignments applied to every      *)
(* skeleton of one or two chapters with up to two paged lessons each, in   *)
(* any insertion order and with any page numbers up to MaxTocPage.         *)
(***************************************************************************)
TocLessons ==
    { <<>> }
    \cup { << [title |-> t, page |-> p] >> : t \in {<<"A">>, <<"B">>}, p \in 1..MaxTocPage }
    \cup { << [title |-> t[1], page |-> p], [title |-> t[2], page |-> q] >> :
             t \in { <<<<"A">>, <<"B">>>>, <<<<"B">>, <<"A">>>> },
             p \in 1..MaxTocPage, q \in 1..MaxTocPage }

TocChapter(title, lesson_pages) ==
    [title |-> title,
     lessons |-> [j \in DOMAIN lesson_pages |-> lesson_pages[j].title],
     lesson_pages |-> lesson_pages]

Skeletons ==
    { << TocChapter(<<"C">>, l) >> : l \in TocLessons }
    \cup { << TocChapter(<<"C">>, l), TocChapter(<<"D">>, m) >> :
             l \in TocLessons, m \in TocLessons }

InitRanges ==
    /\ indexFile = NoFile
    /\ books = <<>>
    /\ chapters = <<>>
    /\ lessons = <<>>
    /\ chunks = <<>>
    /\ clean = TRUE
    /\ runs = <<>>
    /\ \E structured \in Skeletons :
            last = [Trace("ranges", "input", "", None) EXCEPT !.structured = structured]

BuildRanges ==
    /\ last.op = "ranges"
    /\ last.status = "input"
    /\ UNCHANGED runs
    /\ last' = [last EXCEPT !.status = "done",
                            !.page_map = _build_page_assignments(last.structured)]
    /\ UNCHANGED <<indexFile, books, chapters, lessons, chunks, clean>>

NextRanges == BuildRanges

SpecRanges == InitRanges /\ [][NextRanges]_vars

(***************************************************************************)
(* Properties.                                                             *)
(***************************************************************************)
OfBook(rows, book_id) == SelectSeq(rows, LAMBDA r : r.book_id = book_id)

NotOfBook(rows, book_id) == SelectSeq(rows, LAMBDA r : r.book_id # book_id)

TextsOf(rows) == [i \in DOMAIN rows |-> rows[i].text]

\* the vector at position embedding_index is the embedding of the chunk's text
AlignedChunk(c) ==
    /\ indexFile.exists
    /\ c.embedding_index + 1 \in DOMAIN indexFile.vecs
    /\ indexFile.vecs[c.embedding_index + 1].of = c.text

Aligned == \A i \in DOMAIN chunks : AlignedChunk(chunks[i])

IngestCompleted(t) == t.op = "ingest" /\ t.status = "completed"

\* C1: after completed ingest, re-ingest and delete operations, every
\* chunk's vector sits at position embedding_index of the index.
C1_OrderPreservation == clean => Aligned

\* C2: embedding_index is unique across the passage store, and a completed
\* ingestion gives its chunks consecutive values above every value held by
\* a chunk that was in the store when they were assigned.
C2_UniqueMonotonic ==
    /\ [](\A i, j \in DOMAIN chunks :
            i # j => chunks[i].embedding_index # chunks[j].embedding_index)
    /\ [][IngestCompleted(last') =>
            LET new == OfBook(chunks', last'.book_id)
                store == NotOfBook(chunks, last'.book_id)
            IN  /\ Len(new) = last'.appended
                /\ NotOfBook(chunks', last'.book_id) = store
                /\ \A i \in DOMAIN new :
                     /\ i > 1 => new[i].embedding_index = new[i - 1].embedding_index + 1
                     /\ \A j \in DOMAIN store :
                          new[i].embedding_index > store[j].embedding_index]_vars

C2_Witness ==
    /\ IngestCompleted(last)
    /\ Len(OfBook(chunks, last.book_id)) = 2
    /\ NotOfBook(chunks, last.book_id) # <<>>

\* C3: an ingestion that aborts on a fetch failure, an embedding failure or
\* a dimensionality mismatch leaves the persisted state as it was.
C3_AbortLeavesState ==
    [][last'.op = "ingest" /\ last'.status = "aborted"
         /\ last'.cause \in {"fetch", "embed", "dim"}
       => persisted' = persisted]_vars

\* C4: after completed operations the index holds exactly one vector per
\* chunk of the passage store.
C4_NoOrphans == clean => ntotal(indexFile) = Len(chunks)

\* C5: a second completed ingestion of the same book with the same document
\* leaves as many chunks as the first, all of them past the largest
\* embedding_index that existed before the second run (ingest_pdf never
\* rebuilds the index).
C5_Reingest ==
    [][IngestCompleted(last) /\ IngestCompleted(last')
         /\ last'.book_id = last.book_id
         /\ TextsOf(OfBook(chunks', last.book_id)) = TextsOf(OfBook(chunks, last.book_id))
       => /\ Len(OfBook(chunks', last.book_id)) = Len(OfBook(chunks, last.book_id))
          /\ \A i \in DOMAIN chunks' :
               chunks'[i].book_id = last.book_id
                 => chunks'[i].embedding_index > SetMax(EmbeddingIndices(chunks))]_vars

DeleteOps == {"delete_by_id", "delete_by_name", "books_delete"}

Deleted(t) == t.op \in DeleteOps /\ t.status = "deleted"

\* C6: every operation that deletes a book, started where index and passage
\* store agree, leaves the index smaller by the book's chunk count and as
\* large as the surviving store.
C6_DeleteRebuilds ==
    [][Deleted(last') /\ Aligned /\ ntotal(indexFile) = Len(chunks)
       => /\ ntotal(indexFile') = ntotal(indexFile) - last'.removed
          /\ ntotal(indexFile') = Len(chunks')]_vars

NoRowOf(book_id) ==
    /\ OfBook(books', book_id) = <<>>
    /\ OfBook(chapters', book_id) = <<>>
    /\ OfBook(lessons', book_id) = <<>>
    /\ OfBook(chunks', book_id) = <<>>

OthersKept(book_id) ==
    /\ NotOfBook(books', book_id) = NotOfBook(books, book_id)
    /\ NotOfBook(chapters', book_id) = NotOfBook(chapters, book_id)
    /\ NotOfBook(lessons', book_id) = NotOfBook(lessons, book_id)

Unindexed(rows) == [i \in DOMAIN rows |-> [rows[i] EXCEPT !.embedding_index = 0]]

SameOrder(a, b) ==
    /\ Len(a) = Len(b)
    /\ \A i, j \in DOMAIN a :
         a[i].embedding_index < a[j].embedding_index
           <=> b[i].embedding_index < b[j].embedding_index

C9_AppendOnly ==
    [][last'.op = "ingest" /\ last'.appended > 0 =>
         /\ ntotal(indexFile') = ntotal(indexFile) + last'.appended
         /\ \A i \in DOMAIN indexFile.vecs : indexFile'.vecs[i] = indexFile.vecs[i]]_vars

C9_Witness == last.op = "ingest" /\ last.appended > 0 /\ ntotal(indexFile) > last.appended

UniqueBy(rows, Key(_)) == \A i, j \in DOMAIN rows : i # j => Key(rows[i]) # Key(rows[j])

BookKey(r) == r.book_id

ChapterKey(r) == r.chapter_id

LessonKey(r) == r.lesson_id

Normalized(name) == Lower(Strip(name))

C10_RelevanceGate ==
    last.op = "query" /\ last.out.gate # "" /\ last.out.best > RELEVANCE_THRESHOLD
        => /\ last.out.sections = <<>>
           /\ last.out.note # ""
           /\ last.out.llm_calls + last.out.content_calls = 0

Query(t) == t.op = "query"

\* the relevance gate turned the query down
Rejected(t) == Query(t) /\ t.out.gate \in {"scope", "distance"}

\* the query went past the relevance gate
Passed(t) == Query(t) /\ t.out.gate = "passed"

\* C11: when the relevance gate rejects a query, the result's sources,
\* indices and distances are all empty.
C11_GateEmptiesOutput ==
    Rejected(last) => /\ last.out.sources = <<>>
                      /\ last.out.indices = <<>>
                      /\ last.out.distances = <<>>

\* a scope reference of the latest query names no row
MissingReference(t) ==
    \/ get_book_by_id(books, t.scope[1]) = <<>>
    \/ get_chapter_by_id(chapters, t.scope[2]) = <<>>
    \/ get_lesson_by_id(lessons, t.scope[3]) = <<>>

NotFoundResult(out) ==
    \/ out.raised = "404"
    \/ out.raised = "" /\ out.note \in {"lesson_not_found", "book_not_found"}

\* C12: a query that names a book, chapter or lesson that does not exist
\* gets an explicit not-found result, and neither the embedding service
\* nor the vector index is consulted for it.
C12_MissingScopeShortCircuits ==
    Query(last) /\ MissingReference(last) /\ last.out.raised # "400"
        => /\ NotFoundResult(last.out)
           /\ last.out.embed_calls = 0
           /\ last.out.searches = 0

\* the endpoint's own refusals (HTTP 404 and 400), made before rag_query runs
Refused(out) == out.raised \in {"404", "400"}

\* C13: rag_query returns a result object and never raises, whatever the
\* state: no index file yet, an empty index, index and passage store out of
\* step, no service credentials.
C13_QueryNeverRaises ==
    Query(last) /\ ~Refused(last.out) => last.out.raised = ""

Filtered(t) == t.op = "filter"

InBook(c, scope) == c.book_id = scope[1]

InChapter(c, scope) == InBook(c, scope) /\ c.chapter_id = scope[2]

InLesson(c, scope) == InChapter(c, scope) /\ c.lesson_id = scope[3]

\* the narrowest level (3 lesson, 2 chapter, 1 book) some passage matches
LevelOf(rs, scope) ==
    IF \E i \in DOMAIN rs : InLesson(rs[i], scope) THEN 3
    ELSE IF \E i \in DOMAIN rs : InChapter(rs[i], scope) THEN 2
    ELSE 1

AtLevel(c, scope, level) ==
    CASE level = 3 -> InLesson(c, scope)
      [] level = 2 -> InChapter(c, scope)
      [] OTHER -> InBook(c, scope)

\* C14: the surviving passages are the retrieved passages of the narrowest
\* level that matches any, in retrieval order; all of them carry the
\* requested book_id.
C14_FirstNonEmptyLevel ==
    Filtered(last) =>
        LET rs == last.out.retrieved
            level == LevelOf(rs, last.scope)
        IN  /\ last.out.filtered = SelectSeq(rs, LAMBDA c : AtLevel(c, last.scope, level))
            /\ \A i \in DOMAIN last.out.filtered : last.out.filtered[i].book_id = last.scope[1]

\* the chapter level decided: no passage of the lesson, one of the chapter,
\* and more of the book than of the chapter
C14_Witness ==
    /\ Filtered(last)
    /\ LevelOf(last.out.retrieved, last.scope) = 2
    /\ Len(last.out.filtered) = 1
    /\ Len(filter_book(last.out.retrieved, last.scope[1])) = 2
    /\ Len(last.out.retrieved) = 3

IsSubset(a, b) == Range(a) \subseteq Range(b)

\* C15: for the passages and the scope of any filtering, the lesson level is
\* a subset of the chapter level, which is a subset of the book level, so
\* the count never grows as the scope narrows.
C15_ScopeMonotone ==
    Filtered(last) =>
        LET rs == last.out.retrieved
            exact == filter_exact(rs, last.scope[1], last.scope[2], last.scope[3])
            chapter == filter_chapter(rs, last.scope[1], last.scope[2])
            book == filter_book(rs, last.scope[1])
        IN  /\ IsSubset(exact, chapter) /\ IsSubset(chapter, book)
            /\ IsSubset(book, rs)
            /\ Len(exact) <= Len(chapter) /\ Len(chapter) <= Len(book)

\* all three levels differ: 1 passage of the lesson, 2 of the chapter, 3 of the book
C15_Witness ==
    /\ Filtered(last)
    /\ Len(filter_exact(last.out.retrieved, last.scope[1], last.scope[2], last.scope[3])) = 1
    /\ Len(filter_chapter(last.out.retrieved, last.scope[1], last.scope[2])) = 2
    /\ Len(filter_book(last.out.retrieved, last.scope[1])) = 3

GenerationFailures == {"bad_json", "raises", "no_key"}

C17_SourcesAttached ==
    last.out.gate = "passed" =>
        /\ Len(last.out.sources) = Min2(3, Len(last.out.filtered))
        /\ \A i \in DOMAIN last.out.sources :
             last.out.sources[i].page = last.out.filtered[i].page

\* four passages survived, three are cited, and the generation call failed
C17_Witness ==
    /\ last.out.gate = "passed"
    /\ last.out.llm = "raises"
    /\ Len(last.out.filtered) = 4
    /\ Len(last.out.sources) = 3

\* ---------------------------------------------------------------------------
Parsed(t) == t.op = "parse" /\ t.status = "done"

\* C18: for a document of N pages the extractor returns exactly N page
\* records, numbered 1..N in order, whatever happened on each page: OCR
\* success, an image error recovered by the direct text, or both failing.
C18_OneRecordPerPage ==
    Parsed(last) =>
        /\ Len(last.pages) = Len(last.doc)
        /\ \A i \in DOMAIN last.pages : last.pages[i].page_num = i

\* every page of a document of at least two pages failed both ways
C18_Witness ==
    /\ Parsed(last)
    /\ Len(last.doc) >= 2
    /\ \A i \in DOMAIN last.doc : last.doc[i].outcome = "failed"
    /\ Len(last.pages) = Len(last.doc)

\* C19: an ingestion run in which some pages, possibly all, came out of the
\* extractor as empty placeholders does not abort because of them: unless
\* the embedding service or the index fails, it completes and reports
\* total_pages = N.
C19_DegradedPagesDoNotAbort ==
    last.op = "ingest" /\ last.degraded > 0 /\ last.cause \notin {"embed", "dim"}
        => /\ last.status = "completed"
           /\ last.total_pages = Len(last.pages)

\* the ids the headings carried by a page record stand for in a book
ChapterIdOf(book_id, pg) ==
    IF pg.chapter = None THEN None ELSE _compute_chapter_id(book_id, pg.chapter)

LessonIdOf(book_id, pg) ==
    IF pg.chapter = None \/ pg.lesson = None THEN None
    ELSE _compute_lesson_id(_compute_chapter_id(book_id, pg.chapter), pg.lesson)

\* C20: when no table-of-contents range covers its page, every chunk an
\* ingestion stores carries the chapter and lesson detected for its source
\* page: the ids of the headings in force on that page, and null for both
\* on pages before the first detected chapter.
C20_ChunksCarryDetectedHeadings ==
    IngestCompleted(last) =>
        \A i \in DOMAIN chunks :
            chunks[i].book_id = last.book_id =>
                /\ chunks[i].chapter_id = ChapterIdOf(last.book_id, last.pages[chunks[i].page])
                /\ chunks[i].lesson_id = LessonIdOf(last.book_id, last.pages[chunks[i].page])

\* ---------------------------------------------------------------------------
SetMin(S) == CHOOSE m \in S : \A x \in S : m <= x

LessonPagesOf(ch) == { ch.lesson_pages[j].page : j \in DOMAIN ch.lesson_pages }

\* the chapters of a skeleton that have a paged lesson, and their first page
PagedChapters(sk) == { c \in DOMAIN sk : sk[c].lesson_pages # <<>> }

FirstLessonPage(sk, c) == SetMin(LessonPagesOf(sk[c]))

LaterFirstPages(sk, c) ==
    { FirstLessonPage(sk, d) : d \in PagedChapters(sk) } \cap
    { p \in 1..MaxTocPage : p > FirstLessonPage(sk, c) }

\* a reconciled skeleton: lessons of a chapter on distinct pages, chapters
\* starting on distinct pages, and every lesson of a chapter before the
\* first lesson of the chapters that start after it
Reconciled(sk) ==
    /\ \A c \in DOMAIN sk :
          \A i, j \in DOMAIN sk[c].lesson_pages :
              i # j => sk[c].lesson_pages[i].page # sk[c].lesson_pages[j].page
    /\ \A c, d \in PagedChapters(sk) :
          c # d => FirstLessonPage(sk, c) # FirstLessonPage(sk, d)
    /\ \A c \in PagedChapters(sk) :
          \A q \in LaterFirstPages(sk, c) : \A p \in LessonPagesOf(sk[c]) : p < q

\* the last page of a lesson: the page before the next lesson of its chapter,
\* else the page before the next chapter, else (nothing follows) its own page
LessonLastPage(sk, c, j) ==
    LET page == sk[c].lesson_pages[j].page
        later == { p \in LessonPagesOf(sk[c]) : p > page }
    IN  IF later # {} THEN SetMin(later) - 1
        ELSE IF LaterFirstPages(sk, c) # {} THEN SetMin(LaterFirstPages(sk, c)) - 1
        ELSE page

Ranged(t) == t.op = "ranges" /\ t.status = "done"

\* C22: for a reconciled skeleton the range map gives every page from a
\* chapter's first lesson page to the page before the next chapter's first
\* lesson page to that chapter, and every page from a lesson's page to the
\* page before the next lesson's page, or through the chapter's end for the
\* last lesson of the chapter, to that lesson.
C22_RangeMap ==
    Ranged(last) /\ Reconciled(last.structured) =>
        LET sk == last.structured
            pm == last.page_map
        IN  /\ \A c \in PagedChapters(sk) :
                  LaterFirstPages(sk, c) # {} =>
                      \A p \in FirstLessonPage(sk, c)..(SetMin(LaterFirstPages(sk, c)) - 1) :
                          p \in DOMAIN pm /\ pm[p].chapter = sk[c].title
            /\ \A c \in DOMAIN sk :
                  \A j \in DOMAIN sk[c].lesson_pages :
                      \A p \in sk[c].lesson_pages[j].page..LessonLastPage(sk, c, j) :
                          /\ p \in DOMAIN pm
                          /\ pm[p] = [chapter |-> sk[c].title,
                                      lesson |-> sk[c].lesson_pages[j].title]

\* two chapters inserted in the reverse of their page order, the earlier one
\* with two lessons whose last one runs to the end of its chapter
C22_Witness ==
    /\ Ranged(last)
    /\ Reconciled(last.structured)
    /\ Len(last.structured) = 2
    /\ Len(last.structured[2].lesson_pages) = 2
    /\ last.structured[1].lesson_pages # <<>>
    /\ FirstLessonPage(last.structured, 2) < FirstLessonPage(last.structured, 1)
    /\ \E j \in 1..2 :
          /\ last.structured[2].lesson_pages[j].page > FirstLessonPage(last.structured, 2)
          /\ LessonLastPage(last.structured, 2, j) > last.structured[2].lesson_pages[j].page

\* C21: a chunk whose page is covered by the range map built from the table
\* of contents is stored with the chapter and lesson of the range map,
\* whatever heading detection assigned to the page: an ingestion with such a
\* page, the embedding service and the index working, completes and stores
\* the chunks of covered pages under the ids of the range map's titles.
C21_RangeMapOverrides ==
    last.op = "ingest" /\ last.page_map # <<>> /\ last.cause \notin {"embed", "dim"}
        => /\ last.status = "completed"
           /\ \A i \in DOMAIN chunks :
                 chunks[i].book_id = last.book_id /\ chunks[i].page \in DOMAIN last.page_map
                     => LET assign == last.page_map[chunks[i].page]
                            chapter_id == _compute_chapter_id(last.book_id, assign.chapter)
                        IN  /\ chunks[i].chapter_id = chapter_id
                            /\ assign.lesson # None =>
                                  chunks[i].lesson_id =
                                      _compute_lesson_id(chapter_id, assign.lesson)

\* ---------------------------------------------------------------------------
LookedUp(t) == t.op = "search" /\ t.status = "done"

\* C23: no index of a search result that is negative or not below the
\* vector count of the index is used to look up a passage.
C23_OnlyValidIndicesLookedUp ==
    LookedUp(last) =>
        \A i \in DOMAIN last.out.looked_up :
            /\ last.out.looked_up[i] >= 0
            /\ last.out.looked_up[i] < ntotal(indexFile)

\* a search result with the sentinel, an index past the end and a valid one
C23_Witness ==
    /\ LookedUp(last)
    /\ \E i \in DOMAIN last.found : last.found[i].idx < 0
    /\ \E i \in DOMAIN last.found : last.found[i].idx >= ntotal(indexFile)
    /\ last.out.looked_up # <<>>
    /\ last.out.retrieved # <<>>

\* the search result names no valid index twice, as an index search does
DistinctFound(found) ==
    \A i, j \in DOMAIN found : i # j /\ found[i].idx = found[j].idx => found[i].idx < 0

\* the distance the search gave for the vector at position idx
OwnDistance(found, idx) == found[CHOOSE i \in DOMAIN found : found[i].idx = idx].dist

\* C28: in a result that passes the relevance gate, the i-th returned index
\* is the embedding_index of the i-th surviving passage, the i-th returned
\* distance is that passage's own search distance, and the i-th citation's
\* confidence is max(0, 1 - that distance).
C28_ResultsAligned ==
    LookedUp(last) /\ DistinctFound(last.found) /\ last.out.gate = "passed" =>
        LET out == last.out
        IN  /\ Len(out.indices) = Len(out.filtered)
            /\ Len(out.distances) = Len(out.filtered)
            /\ \A i \in DOMAIN out.filtered :
                  /\ out.indices[i] = out.filtered[i].embedding_index
                  /\ out.distances[i] =
                        OwnDistance(last.found, out.filtered[i].embedding_index)
            /\ \A i \in DOMAIN out.sources :
                  out.sources[i].confidence =
                      Confidence(OwnDistance(last.found, out.filtered[i].embedding_index))

\* ---------------------------------------------------------------------------
Loaded(t) == t.op = "cache" /\ t.status = "done"

FirstPages(pages) == { i \in DOMAIN pages : i <= CACHE_CHECK_PAGES }

\* a chapter marker that does not begin with "Chương" or "Phần", a lesson
\* marker that does not begin with "Bài"
MalformedMarker(pg) ==
    \/ (pg.chapter # None /\ Strip(pg.chapter)[1] \notin {"C", "P"})
    \/ (pg.lesson # None /\ Strip(pg.lesson)[1] # "B")

\* the cases in which the claim has the parser run
MustParse(req) ==
    \/ req.force_reparse
    \/ req.force_clear_cache
    \/ ~req.entry.exists
    \/ (\A i \in FirstPages(req.entry.pages) :
          req.entry.pages[i].chapter = None /\ req.entry.pages[i].lesson = None)
    \/ \E i \in FirstPages(req.entry.pages) : MalformedMarker(req.entry.pages[i])

\* C27: the parser is invoked and the cache entry overwritten whenever
\* force_reparse is set, no cache entry exists (force_clear_cache removes
\* it), or the first pages of the cached parse show no chapter or lesson at
\* all or a malformed marker; in every other case the cached pages are used
\* unchanged and the parser is not invoked.
C27_CachePolicy ==
    Loaded(last) =>
        IF MustParse(last.request)
        THEN /\ last.loaded.parser_calls = 1
             /\ last.loaded.pages = parse_pdf_bytes(last.doc)
             /\ last.loaded.entry = Entry(parse_pdf_bytes(last.doc))
        ELSE /\ last.loaded.parser_calls = 0
             /\ last.loaded.pages = last.request.entry.pages
             /\ last.loaded.entry = last.request.entry

\* a cached parse with a well-formed marker on page 1 and a malformed one
\* beyond the pages that are looked at: used as it is
C27_Witness ==
    /\ Loaded(last)
    /\ ~MustParse(last.request)
    /\ Len(last.request.entry.pages) > CACHE_CHECK_PAGES
    /\ MalformedMarker(last.request.entry.pages[Len(last.request.entry.pages)])
    /\ last.loaded.parser_calls = 0

\* ---------------------------------------------------------------------------
Embedded(t) == t.op = "embed" /\ t.status = "done"

\* C26: embed_texts returns exactly one vector per input text, the vector
\* at position i being that of text i, for every input length and batch
\* size, also when the length is not a multiple of the batch size.
C26_OneVectorPerText ==
    Embedded(last) =>
        /\ Len(last.loaded) = Len(last.request.texts)
        /\ \A i \in DOMAIN last.loaded : last.loaded[i].of = last.request.texts[i]

\* several batches, the last one not full
C26_Witness ==
    /\ Embedded(last)
    /\ Len(last.request.texts) > 2 * last.request.batch_size
    /\ Len(last.request.texts) % last.request.batch_size # 0
    /\ Len(last.loaded) = Len(last.request.texts)
    /\ \E i, j \in DOMAIN last.request.texts :
          last.request.texts[i] # last.request.texts[j]

\* ---------------------------------------------------------------------------
\* the pages up to i on which a chapter (lesson) heading was detected
ChapterDetections(doc, i) ==
    { j \in 1..i : Readable(doc[j].outcome) /\ doc[j].chapter # None }

LessonDetections(doc, i) ==
    { j \in 1..i : Readable(doc[j].outcome) /\ doc[j].lesson # None }

\* C25: each page's chapter (lesson) is the most recent chapter (lesson)
\* heading detected on that page or an earlier one, and is empty on every
\* page before the first detection.
C25_CarryForward ==
    Parsed(last) =>
        \A i \in DOMAIN last.pages :
            /\ last.pages[i].chapter =
                  IF ChapterDetections(last.doc, i) = {} THEN None
                  ELSE last.doc[SetMax(ChapterDetections(last.doc, i))].chapter
            /\ last.pages[i].lesson =
                  IF LessonDetections(last.doc, i) = {} THEN None
                  ELSE last.doc[SetMax(LessonDetections(last.doc, i))].lesson

\* a page without a heading after two chapters, and a page before the first
C25_Witness ==
    /\ Parsed(last)
    /\ Len(last.doc) = 3
    /\ ChapterDetections(last.doc, 3) = {2}
    /\ LessonDetections(last.doc, 3) = {2}
    /\ last.pages[1].chapter = None
    /\ last.pages[3].chapter = last.doc[2].chapter
    /\ last.pages[3].lesson = last.doc[2].lesson

\* the first page of the run of pages that carry the chapter of page i
ChapterStart(pages, i) ==
    SetMin({ j \in 1..i : \A m \in j..i : pages[m].chapter = pages[i].chapter })

\* C30: whenever a page carries both a chapter and a lesson, the lesson's
\* heading was detected at or after the page on which that chapter began:
\* no lesson is carried over from an earlier chapter into a later one.
C30_LessonWithinChapter ==
    Parsed(last) =>
        \A i \in DOMAIN last.pages :
            last.pages[i].chapter # None /\ last.pages[i].lesson # None
                => SetMax(LessonDetections(last.doc, i)) >= ChapterStart(last.pages, i)

RunsDone == \A r \in RunIds : runs[r].pc = "done"

\* a vector a finished run appended is not in the persisted index
VectorLost ==
    \E r \in RunIds :
        /\ runs[r].pc \in {"insert", "done"}
        /\ \E v \in Range(runs[r].vectors) : v \notin Range(indexFile.vecs)

\* two chunks of the passage store carry the same embedding_index
IndexShared ==
    \E i, j \in DOMAIN chunks :
        i # j /\ chunks[i].embedding_index = chunks[j].embedding_index

====
